---- MODULE Spec2Model ----
(***************************************************************************)
(* celery/parsers/celery_log.py: parse_celery classifies one log line by   *)
(* trying seven regular expressions in order and returns a metric tuple.   *)
(* A line is a sequence of one-character strings; the regular expressions  *)
(* are evaluated character by character with Python's re.match semantics   *)
(* (anchored at the start, lazy and greedy quantifiers, '.' excluding      *)
(* the newline).                                                           *)
(***************************************************************************)
EXTENDS Integers, Sequences, FiniteSets, TLC

\* ---------------------------------------------------------------- characters
Digit == {"0","1","2","3","4","5","6","7","8","9"}
Lower == {"a","b","c","d","e","f","g","h","i","j","k","l","m",
          "n","o","p","q","r","s","t","u","v","w","x","y","z"}
Upper == {"A","B","C","D","E","F","G","H","I","J","K","L","M",
          "N","O","P","Q","R","S","T","U","V","W","X","Y","Z"}
\* \w
Word == Lower \cup Upper \cup Digit \cup {"_"}
\* [\w\.]
WordDot == Word \cup {"."}
\* [\w\-]
WordDash == Word \cup {"-"}
\* [\w\-\.]
WordDashDot == Word \cup {"-", "."}
\* the complement of \S
Whitespace == {" ", "\t", "\n", "\r", "\f"}
\* the one character '.' does not match
Newline == {"\n"}

DigitChars == <<"0","1","2","3","4","5","6","7","8","9">>

Max(S) == CHOOSE x \in S : \A y \in S : y <= x

\* ------------------------------------------------------ regex building blocks
\* a literal at position i
LitAt(line, i, lit) ==
    /\ i + Len(lit) - 1 <= Len(line)
    /\ \A j \in 1..Len(lit) : line[i + j - 1] = lit[j]

\* index just after the longest run of class characters starting at i (greedy +/*)
RECURSIVE RunEnd(_, _, _)
RunEnd(line, i, class) ==
    IF i <= Len(line) /\ line[i] \in class THEN RunEnd(line, i + 1, class) ELSE i

\* index just after the longest run of characters outside class starting at i
RECURSIVE RunEndNot(_, _, _)
RunEndNot(line, i, class) ==
    IF i <= Len(line) /\ line[i] \notin class THEN RunEndNot(line, i + 1, class) ELSE i

\* \d{4}-\d{2}-\d{2} \d{2}:\d{2}:\d{2} at position i
DateAt(line, i) ==
    /\ i + 18 <= Len(line)
    /\ \A j \in {0,1,2,3,5,6,8,9,11,12,14,15,17,18} : line[i + j] \in Digit
    /\ line[i + 4] = "-" /\ line[i + 7] = "-" /\ line[i + 10] = " "
    /\ line[i + 13] = ":" /\ line[i + 16] = ":"

\* the leading bracket and date searched for anywhere in the line (re.search)
TimestampHead_search(line) ==
    \E p \in 1..Len(line) : line[p] = "[" /\ DateAt(line, p + 1)

\* \[(?P<timestamp>\d{4}-\d{2}-\d{2} \d{2}:\d{2}:\d{2}   anchored by re.match
TimestampHead(line) == Len(line) >= 1 /\ line[1] = "[" /\ DateAt(line, 2)

\* first index after the seconds of the leading date
AfterDate == 21

NoMatch == [matched |-> FALSE]

\* $ with the end anchor dropped
EndOfLine_unanchored(line, j) == TRUE

\* $ : the end of the string, or just before a newline that ends the string
EndOfLine(line, j) == j = Len(line) + 1 \/ (j = Len(line) /\ line[j] = "\n")

\* Task (?P<task>[\w\.]+)\[(?P<task_id>[\w\-]+)\] succeeded in (?P<duration>\d+\.\d+)s: (?P<msg>\S+$)
successTail(line, p) ==
    LET a == p + 5
        b == RunEnd(line, a, WordDot)
        c == b + 1
        d == RunEnd(line, c, WordDash)
        e == d + 15
        f == RunEnd(line, e, Digit)
        g == f + 1
        h == RunEnd(line, g, Digit)
        i == h + 3
        j == RunEndNot(line, i, Whitespace)
    IN  IF /\ LitAt(line, p, <<"T","a","s","k"," ">>)
           /\ b > a /\ b <= Len(line) /\ line[b] = "["
           /\ d > c /\ LitAt(line, d, <<"]"," ","s","u","c","c","e","e","d","e","d"," ","i","n"," ">>)
           /\ f > e /\ f <= Len(line) /\ line[f] = "."
           /\ h > g /\ LitAt(line, h, <<"s",":"," ">>)
           /\ j > i
           /\ EndOfLine(line, j)
        THEN [matched |-> TRUE, task |-> SubSeq(line, a, b - 1),
              task_id |-> SubSeq(line, c, d - 1),
              duration |-> SubSeq(line, e, h - 1), msg |-> SubSeq(line, i, j - 1)]
        ELSE NoMatch

\* Received task: (?P<task>[\w\.]+)\[(?P<task_id>[\w\-]+)\]
receivedTail(line, p) ==
    LET a == p + 15
        b == RunEnd(line, a, WordDot)
        c == b + 1
        d == RunEnd(line, c, WordDash)
    IN  IF /\ LitAt(line, p, <<"R","e","c","e","i","v","e","d"," ","t","a","s","k",":"," ">>)
           /\ b > a /\ b <= Len(line) /\ line[b] = "["
           /\ d > c /\ d <= Len(line) /\ line[d] = "]"
        THEN [matched |-> TRUE, task |-> SubSeq(line, a, b - 1),
              task_id |-> SubSeq(line, c, d - 1)]
        ELSE NoMatch

\* Scheduler: Sending due task (?P<task_name>[\w\-\.]+) \((?P<task>.*?)\)
sendingTail(line, p) ==
    LET a == p + 28
        b == RunEnd(line, a, WordDashDot)
        c == b + 2
        d == RunEndNot(line, c, {")"} \cup Newline)
    IN  IF /\ LitAt(line, p, <<"S","c","h","e","d","u","l","e","r",":"," ","S","e","n","d","i","n","g"," ","d","u","e"," ","t","a","s","k"," ">>)
           /\ b > a /\ LitAt(line, b, <<" ","(">>)
           /\ d <= Len(line) /\ line[d] = ")"
        THEN [matched |-> TRUE, task_name |-> SubSeq(line, a, b - 1),
              task |-> SubSeq(line, c, d - 1)]
        ELSE NoMatch

\* Writing entries\.\.\.
writingTail(line, p) ==
    IF LitAt(line, p, <<"W","r","i","t","i","n","g"," ","e","n","t","r","i","e","s",".",".",".">>) THEN [matched |-> TRUE] ELSE NoMatch

\* beat: Starting\.\.\.
startingTail(line, p) ==
    IF LitAt(line, p, <<"b","e","a","t",":"," ","S","t","a","r","t","i","n","g",".",".",".">>) THEN [matched |-> TRUE] ELSE NoMatch

\* DatabaseScheduler: Schedule changed\.
schedule_changedTail(line, p) ==
    IF LitAt(line, p, <<"D","a","t","a","b","a","s","e","S","c","h","e","d","u","l","e","r",":"," ","S","c","h","e","d","u","l","e"," ","c","h","a","n","g","e","d",".">>)
    THEN [matched |-> TRUE] ELSE NoMatch

\* the error pattern has nothing after its .*
errorTail(line, p) == [matched |-> TRUE]

\* the groups of the rule's tail at position p
RuleTail(rule, line, p) ==
    CASE rule = "success" -> successTail(line, p)
      [] rule = "received" -> receivedTail(line, p)
      [] rule = "sending" -> sendingTail(line, p)
      [] rule = "writing" -> writingTail(line, p)
      [] rule = "starting" -> startingTail(line, p)
      [] rule = "schedule_changed" -> schedule_changedTail(line, p)
      [] rule = "error" -> errorTail(line, p)

\* the positions after the date where the rule's tail matches
Starts(rule, line) ==
    LET P == AfterDate..(Len(line) + 1)
    IN  CASE rule = "success" -> {p \in P : successTail(line, p).matched}
          [] rule = "received" -> {p \in P : receivedTail(line, p).matched}
          [] rule = "sending" -> {p \in P : sendingTail(line, p).matched}
          [] rule = "writing" -> {p \in P : writingTail(line, p).matched}
          [] rule = "starting" -> {p \in P : startingTail(line, p).matched}
          [] rule = "schedule_changed" -> {p \in P : schedule_changedTail(line, p).matched}
          [] rule = "error" -> P

\* .*?(\d+)  then  .*<tail> : the lazy part grows one character at a time from
\* k = 0; at each k the digit run is tried longest first; the first pair after
\* which .*<tail> can match gives the end of the timestamp group.  starts is
\* the set of positions where the tail matches, nl the index of the first
\* newline at or after AfterDate (Len + 1 when there is none).  0: no match.
RECURSIVE FindTs(_, _, _, _)
FindTs(line, starts, nl, pos) ==
    IF pos > Len(line) \/ pos >= nl
    THEN 0
    ELSE LET r == RunEnd(line, pos, Digit)
             good == {e \in (pos + 1)..r : \E p \in starts : e <= p /\ p <= nl}
         IN  IF line[pos] \in Digit /\ good # {}
             THEN Max(good)
             ELSE FindTs(line, starts, nl, pos + 1)

\* re.match(<rule>_regex, line): the groups, or NoMatch
Match(rule, line) ==
    IF ~TimestampHead(line)
    THEN NoMatch
    ELSE LET nl == RunEndNot(line, AfterDate, Newline)
             starts == Starts(rule, line)
             e == FindTs(line, starts, nl, AfterDate)
             \* greedy .* : the last position where the tail matches
             p == Max({q \in starts : e <= q /\ q <= nl})
         IN  IF e = 0
             THEN NoMatch
             ELSE [timestamp |-> SubSeq(line, 2, e - 1)] @@ RuleTail(rule, line, p)

\* ------------------------------------------------------------ common.parse_date
ValueError == [type |-> "ValueError"]

DigitVal(c) == (CHOOSE i \in 1..10 : DigitChars[i] = c) - 1

Num2(s, i) == 10 * DigitVal(s[i]) + DigitVal(s[i + 1])

Num4(s, i) == 100 * Num2(s, i) + Num2(s, i + 2)

IsLeap(y) == (y % 4 = 0 /\ y % 100 # 0) \/ y % 400 = 0

DaysInMonth(y, m) ==
    IF m = 2 THEN (IF IsLeap(y) THEN 29 ELSE 28)
    ELSE IF m \in {4, 6, 9, 11} THEN 30 ELSE 31

\* days from 1970-01-01 to the civil date y-m-d
DaysFromCivil(y, m, d) ==
    LET yy == IF m <= 2 THEN y - 1 ELSE y
        era == yy \div 400
        yoe == yy - era * 400
        mp == (m + 9) % 12
        doy == (153 * mp + 2) \div 5 + d - 1
        doe == yoe * 365 + yoe \div 4 - yoe \div 100 + doy
    IN  era * 146097 + doe - 719468

\* decimal rendering of a natural number
RECURSIVE Str(_)
Str(n) == IF n < 10 THEN <<DigitChars[n + 1]>>
          ELSE Str(n \div 10) \o <<DigitChars[(n % 10) + 1]>>

\* seconds since the epoch of a local date-time, utcoff seconds east of UTC
EpochSeconds(y, mo, d, h, mi, s, utcoff) ==
    DaysFromCivil(y, mo, d) * 86400 + h * 3600 + mi * 60 + s - utcoff

VARIABLES
    tz,        \* the process's time zone: seconds east of UTC
    line,      \* the log line being classified
    arg,       \* the line argument of the latest call
    outcome,   \* what the latest call returned or raised
    first,     \* what the first call on line returned or raised
    calls,     \* number of calls made so far
    nline      \* number of those calls that classified line

vars == <<tz, line, arg, outcome, first, calls, nline>>

\* the date-time text, optionally followed by ',' and fractional digits, read as
\* local time and rendered as epoch seconds; anything else is a parse failure
parse_date(date_val) ==
    LET n == Len(date_val)
        y == Num4(date_val, 1)
        mo == Num2(date_val, 6)
        d == Num2(date_val, 9)
        h == Num2(date_val, 12)
        mi == Num2(date_val, 15)
        s == Num2(date_val, 18)
    IN  IF /\ DateAt(date_val, 1)
           /\ \/ n = 19
              \/ /\ n > 20
                 /\ date_val[20] = ","
                 /\ \A i \in 21..n : date_val[i] \in Digit
           /\ mo \in 1..12 /\ d \in 1..DaysInMonth(y, mo)
           /\ h \in 0..23 /\ mi \in 0..59 /\ s \in 0..59
        THEN Str(EpochSeconds(y, mo, d, h, mi, s, tz))
        ELSE ValueError

\* ---------------------------------------------------------------- parse_celery
None == [type |-> "None"]

attr_dict_gauge == [metric_type |-> "gauge", unit |-> "request"]

attr_dict == [metric_type |-> "counter", unit |-> "request"]

\* "celery.%s" % celery_event
Fmt1(celery_event) == <<"c","e","l","e","r","y",".">> \o celery_event

\* "celery.%s.%s" % (celery_event, event['task'])
Fmt2(celery_event, task) == <<"c","e","l","e","r","y",".">> \o celery_event \o <<".">> \o task

\* a parse failure swallowed instead of propagated
Emit_swallow(name, timestamp) ==
    LET date == parse_date(timestamp)
    IN  IF date = ValueError
        THEN None
        ELSE [type |-> "tuple", name |-> name, timestamp |-> date,
              count |-> 1, attributes |-> attr_dict]

\* the count kept in a counter that outlives the call
Emit_counting(name, timestamp) ==
    LET date == parse_date(timestamp)
    IN  IF date = ValueError
        THEN ValueError
        ELSE [type |-> "tuple", name |-> name, timestamp |-> date,
              count |-> calls + 1, attributes |-> attr_dict]

\* return (name, common.parse_date(event['timestamp']), 1, attr_dict):
\* an exception of parse_date propagates to the caller
Emit(name, timestamp) ==
    LET date == parse_date(timestamp)
    IN  IF date = ValueError
        THEN ValueError
        ELSE [type |-> "tuple", name |-> name, timestamp |-> date,
              count |-> 1, attributes |-> attr_dict]

\* the rules in the order the function tries them
Rules == <<"success", "received", "sending", "writing", "starting",
           "schedule_changed", "error">>

EventChars(rule) ==
    CASE rule = "success" -> <<"s","u","c","c","e","s","s">>
      [] rule = "received" -> <<"r","e","c","e","i","v","e","d">>
      [] rule = "sending" -> <<"s","e","n","d","i","n","g">>
      [] rule = "writing" -> <<"w","r","i","t","i","n","g">>
      [] rule = "starting" -> <<"s","t","a","r","t","i","n","g">>
      [] rule = "schedule_changed" -> <<"s","c","h","e","d","u","l","e","_","c","h","a","n","g","e","d">>
      [] rule = "error" -> <<"e","r","r","o","r">>

\* the metric named after the task id instead of the task
SuccessBranch_task_id(event) ==
    Emit(Fmt2(EventChars("success"), event.task_id), event.timestamp)

\* the branch taken when success_regex matches
SuccessBranch(event) ==
    Emit(Fmt2(EventChars("success"), event.task), event.timestamp)

\* the branch taken when received_regex matches
ReceivedBranch(event) ==
    Emit(Fmt2(EventChars("received"), event.task), event.timestamp)

\* the metric named after the schedule entry instead of the task
SendingBranch_task_name(event) ==
    Emit(Fmt2(EventChars("sending"), event.task_name), event.timestamp)

\* the branch taken when sending_regex matches
SendingBranch(event) ==
    Emit(Fmt2(EventChars("sending"), event.task), event.timestamp)

\* the branch taken when writing_regex matches
WritingBranch(event) == Emit(Fmt1(EventChars("writing")), event.timestamp)

\* the branch taken when starting_regex matches
StartingBranch(event) == Emit(Fmt1(EventChars("starting")), event.timestamp)

\* the branch taken when schedule_changed_regex matches
ScheduleChangedBranch(event) ==
    Emit(Fmt1(EventChars("schedule_changed")), event.timestamp)

\* the branch taken when error_regex matches
ErrorBranch(event) == Emit(Fmt1(EventChars("error")), event.timestamp)

\* the received rule tried before the success rule
parse_celery_received_first(logging, l) ==
    LET success == Match("success", l)
        received == Match("received", l)
        sending == Match("sending", l)
        writing == Match("writing", l)
        starting == Match("starting", l)
        schedule_changed == Match("schedule_changed", l)
        error == Match("error", l)
    IN  IF received.matched THEN ReceivedBranch(received)
        ELSE IF success.matched THEN SuccessBranch(success)
        ELSE IF sending.matched THEN SendingBranch(sending)
        ELSE IF writing.matched THEN WritingBranch(writing)
        ELSE IF starting.matched THEN StartingBranch(starting)
        ELSE IF schedule_changed.matched THEN ScheduleChangedBranch(schedule_changed)
        ELSE IF error.matched THEN ErrorBranch(error)
        ELSE None

parse_celery(logging, l) ==
    LET success == Match("success", l)
        received == Match("received", l)
        sending == Match("sending", l)
        writing == Match("writing", l)
        starting == Match("starting", l)
        schedule_changed == Match("schedule_changed", l)
        error == Match("error", l)
    IN  IF success.matched THEN SuccessBranch(success)
        ELSE IF received.matched THEN ReceivedBranch(received)
        ELSE IF sending.matched THEN SendingBranch(sending)
        ELSE IF writing.matched THEN WritingBranch(writing)
        ELSE IF starting.matched THEN StartingBranch(starting)
        ELSE IF schedule_changed.matched THEN ScheduleChangedBranch(schedule_changed)
        ELSE IF error.matched THEN ErrorBranch(error)
        ELSE None

\* ---------------------------------------------------------------------- inputs
\* the lines of the module's self-test
test_success_input == <<"[","2","0","1","3","-","0","2","-","0","9"," ","1","5",":","2","0",":","4","3",",","7","7","9",":"," ","I","N","F","O","/","M","a","i","n","P","r","o","c","e","s","s","]"," ","T","a","s","k"," ","e","n","t","i","t","y",".","t","a","s","k","s",".","a","d","d","_","l","o","v","e","[","c","8","4","1","1","1","0","4","-","e","e","4","0","-","4","9","e","8","-","a","b","4","d","-","a","f","1","b","e","6","0","f","9","3","a","a","]"," ","s","u","c","c","e","e","d","e","d"," ","i","n"," ","0",".","1","6","9","1","5","0","8","2","9","3","1","5","s",":"," ","N","o","n","e">>
test_received_input == <<"[","2","0","1","5","-","0","7","-","2","0"," ","1","8",":","2","5",":","5","9",",","3","7","1",":"," ","I","N","F","O","/","M","a","i","n","P","r","o","c","e","s","s","]"," ","R","e","c","e","i","v","e","d"," ","t","a","s","k",":"," ","a","p","p","r","a","t","i","n","g","s",".","t","a","s","k","s",".","a","d","d","[","6","c","d","4","2","8","1","2","-","7","a","9","e","-","4","9","d","5","-","9","b","b","d","-","1","1","7","4","2","3","3","4","4","1","c","b","]">>
test_sending_input == <<"[","2","0","1","5","-","0","7","-","2","0"," ","1","8",":","2","4",":","1","8",",","0","3","6",":"," ","I","N","F","O","/","M","a","i","n","P","r","o","c","e","s","s","]"," ","S","c","h","e","d","u","l","e","r",":"," ","S","e","n","d","i","n","g"," ","d","u","e"," ","t","a","s","k"," ","a","d","d","-","e","v","e","r","y","-","5","-","s","e","c","o","n","d","s"," ","(","a","p","p","r","a","t","i","n","g","s",".","t","a","s","k","s",".","a","d","d",")">>
test_writing_input == <<"[","2","0","1","5","-","0","7","-","2","2"," ","1","6",":","1","4",":","1","0",",","2","0","6",":"," ","I","N","F","O","/","M","a","i","n","P","r","o","c","e","s","s","]"," ","W","r","i","t","i","n","g"," ","e","n","t","r","i","e","s",".",".",".">>
test_starting_input == <<"[","2","0","1","5","-","0","7","-","2","8"," ","0","3",":","3","0",":","1","7",",","1","8","3",":"," ","I","N","F","O","/","M","a","i","n","P","r","o","c","e","s","s","]"," ","b","e","a","t",":"," ","S","t","a","r","t","i","n","g",".",".",".">>
test_schedule_changed_input == <<"[","2","0","1","5","-","0","7","-","2","8"," ","0","3",":","3","0",":","1","7",",","3","3","8",":"," ","I","N","F","O","/","M","a","i","n","P","r","o","c","e","s","s","]"," ","D","a","t","a","b","a","s","e","S","c","h","e","d","u","l","e","r",":"," ","S","c","h","e","d","u","l","e"," ","c","h","a","n","g","e","d",".">>
test_error_input == <<"[","2","0","1","3","-","0","2","-","0","6"," ","1","4",":","0","2",":","0","2",",","4","3","5",":"," ","W","A","R","N","I","N","G","/","M","a","i","n","P","r","o","c","e","s","s","]"," ","l","e","n","(",")"," ","o","n"," ","a","n"," ","u","n","s","l","i","c","e","d"," ","q","u","e","r","y","s","e","t"," ","i","s"," ","n","o","t"," ","a","l","l","o","w","e","d">>

TestLines == {test_success_input, test_received_input, test_sending_input,
              test_writing_input, test_starting_input,
              test_schedule_changed_input, test_error_input}

\* what precedes the message: the bracketed timestamp, level and process name
Heads == {
    <<"[","2","0","1","3","-","0","2","-","0","9"," ","1","5",":","2","0",":","4","3",",","7","7","9",":"," ","I","N","F","O","/","M","a","i","n","P","r","o","c","e","s","s","]"," ">>,
    <<"[","2","0","1","6","-","0","2","-","2","9"," ","2","3",":","5","9",":","5","9",",","1",":"," ","W","A","R","N","I","N","G","/","W","o","r","k","e","r","-","1","]"," ">>,
    <<"[","2","0","1","3","-","0","2","-","0","9"," ","1","5",":","2","0",":","4","3",":"," ","I","N","F","O","/","M","a","i","n","P","r","o","c","e","s","s","]"," ">>,
    <<"[","2","0","1","3","-","0","2","-","0","9"," ","1","5",":","2","0",":","4","3",":"," ","I","N","F","O","/","W","o","r","k","e","r","-","1","]"," ">>,
    <<"[","2","0","1","3","-","0","2","-","0","9"," ","1","5",":","2","0",":","4","3","]"," ">>,
    <<"[","2","0","1","3","-","1","3","-","0","9"," ","1","5",":","2","0",":","4","3",",","7","7","9",":"," ","I","N","F","O","/","M","a","i","n","P","r","o","c","e","s","s","]"," ">>,
    <<"[","2","0","1","3","-","0","2","-","0","9"," ","2","4",":","2","0",":","4","3",",","7","7","9",":"," ","I","N","F","O","/","M","a","i","n","P","r","o","c","e","s","s","]"," ">>,
    <<"[","2","0","1","3","-","2","-","0","9"," ","1","5",":","2","0",":","4","3",",","7","7","9",":"," ","I","N","F","O","/","M","a","i","n","P","r","o","c","e","s","s","]"," ">>,
    <<" ","[","2","0","1","3","-","0","2","-","0","9"," ","1","5",":","2","0",":","4","3",",","7","7","9",":"," ","I","N","F","O","/","M","a","i","n","P","r","o","c","e","s","s","]"," ">>,
    <<"2","0","1","3","-","0","2","-","0","9"," ","1","5",":","2","0",":","4","3",",","7","7","9",":"," ","I","N","F","O","/","M","a","i","n","P","r","o","c","e","s","s"," ">>,
    <<>> }

\* message fragments, one per rule and the near misses of each
SuccessFrag == <<"T","a","s","k"," ","e","n","t","i","t","y",".","t","a","s","k","s",".","a","d","d","_","l","o","v","e","[","c","8","4","1","1","1","0","4","-","e","e","4","0","]"," ","s","u","c","c","e","e","d","e","d"," ","i","n"," ","0",".","1","6","9","s",":"," ","N","o","n","e">>
ReceivedFrag == <<"R","e","c","e","i","v","e","d"," ","t","a","s","k",":"," ","a","p","p","r","a","t","i","n","g","s",".","t","a","s","k","s",".","a","d","d","[","6","c","d","4","2","8","1","2","-","7","a","9","e","]">>
SendingFrag == <<"S","c","h","e","d","u","l","e","r",":"," ","S","e","n","d","i","n","g"," ","d","u","e"," ","t","a","s","k"," ","a","d","d","-","e","v","e","r","y","-","5","-","s","e","c","o","n","d","s"," ","(","a","p","p","r","a","t","i","n","g","s",".","t","a","s","k","s",".","a","d","d",")">>
WritingFrag == <<"W","r","i","t","i","n","g"," ","e","n","t","r","i","e","s",".",".",".">>
StartingFrag == <<"b","e","a","t",":"," ","S","t","a","r","t","i","n","g",".",".",".">>
ScheduleChangedFrag == <<"D","a","t","a","b","a","s","e","S","c","h","e","d","u","l","e","r",":"," ","S","c","h","e","d","u","l","e"," ","c","h","a","n","g","e","d",".">>
ErrorFrag == <<"l","e","n","(",")"," ","o","n"," ","a","n"," ","u","n","s","l","i","c","e","d"," ","q","u","e","r","y","s","e","t"," ","i","s"," ","n","o","t"," ","a","l","l","o","w","e","d">>

RuleFrags == {SuccessFrag, ReceivedFrag, SendingFrag, WritingFrag, StartingFrag,
              ScheduleChangedFrag, ErrorFrag}

NearMissFrags == {
    <<"T","a","s","k"," ","a",".","b","[","c","-","1","]"," ","s","u","c","c","e","e","d","e","d"," ","i","n"," ","0",".","1","s",":"," ","{","'","a","'",":"," ","1","}">>,
    <<"T","a","s","k"," ","a",".","b","[","c","-","1","]"," ","s","u","c","c","e","e","d","e","d"," ","i","n"," ","5","s",":"," ","N","o","n","e">>,
    <<"T","a","s","k"," ","a",".","b","[","c","-","1","]"," ","s","u","c","c","e","e","d","e","d"," ","i","n"," ","0",".","5","s",":"," ">>,
    <<"T","a","s","k"," ","a","-","b","[","c","-","1","]"," ","s","u","c","c","e","e","d","e","d"," ","i","n"," ","0",".","5","s",":"," ","N","o","n","e">>,
    <<"R","e","c","e","i","v","e","d"," ","t","a","s","k",":"," ","a",".","b","[","]">>,
    <<"S","c","h","e","d","u","l","e","r",":"," ","S","e","n","d","i","n","g"," ","d","u","e"," ","t","a","s","k"," ","n","i","g","h","t","l","y"," ","(","a"," ","(","b",")"," ","c",")">>,
    <<"S","c","h","e","d","u","l","e","r",":"," ","S","e","n","d","i","n","g"," ","d","u","e"," ","t","a","s","k"," ","n","i","g","h","t","l","y"," ","(",")">>,
    <<"S","c","h","e","d","u","l","e","r",":"," ","S","e","n","d","i","n","g"," ","d","u","e"," ","t","a","s","k"," ","a",".","b"," ","(","a",".","b",")">>,
    <<"S","c","h","e","d","u","l","e","r",":"," ","S","e","n","d","i","n","g"," ","d","u","e"," ","t","a","s","k"," ","n","i","g","h","t","l","y"," ","(","a",".","b">>,
    <<"W","r","i","t","i","n","g"," ","e","n","t","r","i","e","s",".",".">>,
    <<"e","x","i","t"," ","c","o","d","e"," ","5">>,
    <<>> }

\* two fragments separated by a space
Pairs == {f \o <<" ">> \o g : f \in RuleFrags \ {SendingFrag}, g \in RuleFrags \ {ErrorFrag}}

\* a message cut in two by a newline
Broken == {f \o <<"\n">> \o g : f \in {<<"x">>, <<"7">>}, g \in RuleFrags}

WellFormedHeads == {
    <<"[","2","0","1","3","-","0","2","-","0","9"," ","1","5",":","2","0",":","4","3",",","7","7","9",":"," ","I","N","F","O","/","M","a","i","n","P","r","o","c","e","s","s","]"," ">>,
    <<"[","2","0","1","3","-","0","2","-","0","9"," ","1","5",":","2","0",":","4","3",":"," ","I","N","F","O","/","W","o","r","k","e","r","-","1","]"," ">> }

\* the line as logged, or with its newline kept
Lines ==
    TestLines
    \cup {h \o m : h \in Heads, m \in RuleFrags \cup NearMissFrags}
    \cup {h \o m \o <<"\n">> : h \in WellFormedHeads, m \in RuleFrags \cup NearMissFrags}
    \cup {h \o m : h \in WellFormedHeads, m \in Pairs \cup Broken}

\* a line of the self-test that is classified between two calls on line
OtherLines == {test_error_input}

Pending == [type |-> "pending"]

Loggings == {"logging", "other_logger"}

TimeZones == {-28800, 0}

MaxCalls == 3

Init ==
    /\ tz \in TimeZones
    /\ line \in Lines
    /\ arg = <<>>
    /\ outcome = Pending
    /\ first = Pending
    /\ calls = 0
    /\ nline = 0

\* parse_celery(logging, line)
Call(logging) ==
    /\ calls < MaxCalls
    /\ outcome' = parse_celery(logging, line)
    /\ arg' = line
    /\ first' = IF first = Pending THEN outcome' ELSE first
    /\ calls' = calls + 1
    /\ nline' = nline + 1
    /\ UNCHANGED <<tz, line>>

\* parse_celery(logging, other) on another line
CallOther(logging, other) ==
    /\ calls < MaxCalls
    /\ other # line
    /\ outcome' = parse_celery(logging, other)
    /\ arg' = other
    /\ calls' = calls + 1
    /\ UNCHANGED <<tz, line, first, nline>>

Next ==
    \/ \E logging \in Loggings : Call(logging)
    \/ \E logging \in Loggings, other \in OtherLines : CallOther(logging, other)

Spec == Init /\ [][Next]_vars


\* ------------------------------------------------------------------ properties
\* the latest call classified line and has returned or raised
Returned == arg = line /\ outcome # Pending

Min(S) == CHOOSE x \in S : \A y \in S : x <= y

\* the indexes in Rules of the patterns that match the line
MatchingRules(l) == {i \in 1..Len(Rules) : Match(Rules[i], l).matched}

IsPrefix(pre, s) == Len(pre) <= Len(s) /\ SubSeq(s, 1, Len(pre)) = pre

\* name is celery.<kind>, alone or followed by '.' and more
HasKind(name, kind) ==
    LET pre == <<"c","e","l","e","r","y",".">> \o EventChars(kind)
    IN  name = pre \/ IsPrefix(pre \o <<".">>, name)

FixedAttributes == [metric_type |-> "counter", unit |-> "request"]

\* the epoch seconds of the date-time in characters 2..20 of the line
LeadingEpoch(l) ==
    Str(EpochSeconds(Num4(l, 2), Num2(l, 7), Num2(l, 10),
                     Num2(l, 13), Num2(l, 16), Num2(l, 19), tz))

\* the line starts with '[' and the date-time shape
LeadingBracketedDate(l) == Len(l) >= 1 /\ l[1] = "[" /\ DateAt(l, 2)

\* the line starts with '[' and a date-time that exists
LeadingTimestamp(l) ==
    /\ LeadingBracketedDate(l)
    /\ Num2(l, 7) \in 1..12
    /\ Num2(l, 10) \in 1..DaysInMonth(Num4(l, 2), Num2(l, 7))
    /\ Num2(l, 13) \in 0..23 /\ Num2(l, 16) \in 0..59 /\ Num2(l, 19) \in 0..59

Occurrences(l, lit) == {p \in 1..Len(l) : LitAt(l, p, lit)}

\* C1: the event kind of a result is that of the first rule, in the order
\* success, received, sending, writing, starting, schedule_changed, error,
\* whose pattern matches the line; no result when none matches; a failure only
\* from the first matching rule's timestamp; never celery.error when a
\* specific rule matches.
C1_FirstMatchingRuleWins ==
    Returned =>
        LET M == MatchingRules(line)
        IN  /\ M = {} => outcome = None
            /\ outcome.type = "tuple" =>
                   M # {} /\ HasKind(outcome.name, Rules[Min(M)])
            /\ outcome = ValueError =>
                   M # {} /\ parse_date(Match(Rules[Min(M)], line).timestamp) = ValueError
            /\ (outcome.type = "tuple" /\ M \cap 1..6 # {}) =>
                   ~HasKind(outcome.name, "error")

\* a line with a received fragment and a success fragment was classified
C1_Witness ==
    /\ Returned
    /\ outcome.type = "tuple"
    /\ {1, 2, 7} \subseteq MatchingRules(line)

\* C2: a line matching the success pattern with task T and a timestamp text S
\* that has an epoch encoding yields ("celery.success." + T, epoch of S, 1,
\* {metric_type: counter, unit: request}).
C2_SuccessTuple ==
    LET m == Match("success", line)
    IN  (Returned /\ m.matched /\ parse_date(m.timestamp) # ValueError) =>
            outcome = [type |-> "tuple",
                       name |-> <<"c","e","l","e","r","y",".","s","u","c","c","e","s","s",".">> \o m.task,
                       timestamp |-> LeadingEpoch(line),
                       count |-> 1,
                       attributes |-> FixedAttributes]

\* the success line of the self-test, classified in the zone of its expected value
C2_Witness ==
    /\ Returned
    /\ line = test_success_input
    /\ tz = -28800
    /\ outcome.type = "tuple"
    /\ outcome.name = <<"c","e","l","e","r","y",".","s","u","c","c","e","s","s",".","e","n","t","i","t","y",".","t","a","s","k","s",".","a","d","d","_","l","o","v","e">>
    /\ outcome.timestamp = <<"1","3","6","0","4","5","2","0","4","3">>

\* no tail of a specific rule occurs anywhere in the line
NoKnownKeyword(l) ==
    \A i \in 1..6 : \A p \in 1..(Len(l) + 1) : ~RuleTail(Rules[i], l, p).matched

\* C3: a line with a leading '[' and YYYY-MM-DD HH:MM:SS timestamp and none of
\* the known keywords yields an event named exactly celery.error.
C3_GenericShapeIsError ==
    (Returned /\ LeadingTimestamp(line) /\ NoKnownKeyword(line)
        /\ outcome # ValueError) =>
        outcome.type = "tuple" /\ outcome.name = <<"c","e","l","e","r","y",".","e","r","r","o","r">>

\* C4: a line without a bracketed timestamp at its very start yields None,
\* nothing raised, also when a well-formed entry occurs later in the line.
C4_NoLeadingTimestampIsAbsent ==
    (Returned /\ ~LeadingBracketedDate(line)) => outcome = None

\* a line whose bracketed timestamp starts after the first character
C4_Witness ==
    /\ Returned
    /\ outcome = None
    /\ \E p \in 2..Len(line) : line[p] = "[" /\ DateAt(line, p + 1)

\* C5: when a rule matches and the captured timestamp text cannot be parsed,
\* the call raises: it returns neither None nor an event.
C5_ParseFailureSurfaces ==
    LET M == MatchingRules(line)
    IN  (Returned /\ M # {}
            /\ parse_date(Match(Rules[Min(M)], line).timestamp) = ValueError) =>
            outcome = ValueError

\* a line with month 13 was classified
C5_Witness ==
    /\ Returned
    /\ outcome = ValueError
    /\ LeadingBracketedDate(line)
    /\ Num2(line, 7) = 13

\* C6: a call yields one event or none; every event has count 1, the fixed
\* attributes, and the name celery.<kind>, followed by '.' and the task exactly
\* when the rule is success, received or sending.
C6_EventShape ==
    Returned =>
        \/ outcome = None
        \/ outcome = ValueError
        \/ /\ outcome.type = "tuple"
           /\ outcome.count = 1
           /\ outcome.attributes = FixedAttributes
           /\ \E i \in 1..Len(Rules) :
                  LET m == Match(Rules[i], line)
                      pre == <<"c","e","l","e","r","y",".">> \o EventChars(Rules[i])
                  IN  /\ m.matched
                      /\ outcome.name = IF i <= 3 THEN pre \o <<".">> \o m.task ELSE pre

\* an event without a task suffix was produced
C6_Witness ==
    /\ Returned
    /\ outcome.type = "tuple"
    /\ outcome.name = <<"c","e","l","e","r","y",".","s","c","h","e","d","u","l","e","_","c","h","a","n","g","e","d">>

C8_SendingNamesTaskPath ==
    LET m == Match("sending", line)
    IN  (Returned /\ outcome.type = "tuple" /\ Min(MatchingRules(line)) = 3) =>
            LET open == Min({p \in Occurrences(line, m.task_name \o <<" ","(">>) :
                               LitAt(line, p - 28, <<"S","c","h","e","d","u","l","e","r",":"," ","S","e","n","d","i","n","g"," ","d","u","e"," ","t","a","s","k"," ">>)})
                        + Len(m.task_name) + 2
                close == Min({q \in open..Len(line) : line[q] = ")"})
            IN  /\ outcome.name = <<"c","e","l","e","r","y",".","s","e","n","d","i","n","g",".">> \o SubSeq(line, open, close - 1)
                /\ m.task_name # m.task =>
                       outcome.name # <<"c","e","l","e","r","y",".","s","e","n","d","i","n","g",".">> \o m.task_name

\* a sending line whose entry name differs from its task path was classified
C8_Witness ==
    /\ Returned
    /\ outcome.type = "tuple"
    /\ Min(MatchingRules(line) \cup {7}) = 3
    /\ Match("sending", line).task_name # Match("sending", line).task

\* the line with ,779 written after the seconds of its leading timestamp
WithFraction(l) == SubSeq(l, 1, 20) \o <<",","7","7","9">> \o SubSeq(l, 21, Len(l))

\* C9: a line whose leading timestamp has no fractional part is classified as
\* the same line with ,fff after the seconds, and the timestamp text handed to
\* normalization is the date-time of the leading timestamp.
C9_FractionOptional ==
    (Returned /\ LeadingTimestamp(line) /\ Len(line) > 20 /\ line[21] # ",") =>
        LET M == MatchingRules(line)
        IN  /\ outcome = parse_celery("logging", WithFraction(line))
            /\ M # {} => Match(Rules[Min(M)], line).timestamp = SubSeq(line, 2, 20)

\* the position after the last ' succeeded in ' of the line, 0 without one
AfterSucceededIn(l) ==
    LET S == Occurrences(l, <<" ","s","u","c","c","e","e","d","e","d"," ","i","n"," ">>)
    IN  IF S = {} THEN 0 ELSE Max(S) + 14

\* the duration text D of '... succeeded in D: R': up to the next ':'
DurationText(l) ==
    LET a == AfterSucceededIn(l)
    IN  IF a = 0 THEN <<>> ELSE SubSeq(l, a, RunEndNot(l, a, {":"}) - 1)

\* the result text R of '... succeeded in D: R', without the ending newline
ResultText(l) ==
    LET a == AfterSucceededIn(l)
        c == RunEndNot(l, a, {":"})
        b == IF l[Len(l)] = "\n" THEN Len(l) - 1 ELSE Len(l)
    IN  IF a = 0 \/ ~LitAt(l, c, <<":"," ">>) THEN <<>> ELSE SubSeq(l, c + 2, b)

\* digits '.' digits 's'
StrictDuration(d) ==
    LET f == RunEnd(d, 1, Digit)
        h == RunEnd(d, f + 1, Digit)
    IN  /\ f > 1 /\ f <= Len(d) /\ d[f] = "."
        /\ h > f + 1 /\ h = Len(d) /\ d[h] = "s"

\* C10: a line is classified as success only when its duration is digits '.'
\* digits 's' and its result is one whitespace-free token ending the line; a
\* line with one 'Task T[id] succeeded in D: R' whose R contains whitespace or
\* whose D has no decimal point, and no other keyword, yields celery.error.
C10_StrictSuccess ==
    (Returned /\ outcome.type = "tuple") =>
        /\ HasKind(outcome.name, "success") =>
               /\ StrictDuration(DurationText(line))
               /\ ResultText(line) # <<>>
               /\ \A i \in 1..Len(ResultText(line)) : ResultText(line)[i] \notin Whitespace
        /\ ( /\ Cardinality(Occurrences(line, <<" ","s","u","c","c","e","e","d","e","d"," ","i","n"," ">>)) = 1
             /\ \A i \in 2..6 : ~Match(Rules[i], line).matched
             /\ \/ ~StrictDuration(DurationText(line))
                \/ \E i \in 1..Len(ResultText(line)) : ResultText(line)[i] \in Whitespace )
           => outcome.name = <<"c","e","l","e","r","y",".","e","r","r","o","r">>

\* a success line whose result contains whitespace was returned as an error
C10_Witness ==
    /\ Returned
    /\ outcome.type = "tuple"
    /\ outcome.name = <<"c","e","l","e","r","y",".","e","r","r","o","r">>
    /\ \E i \in 1..Len(ResultText(line)) : ResultText(line)[i] \in Whitespace

====
